---- MODULE Spec2Model ----
(***************************************************************************)
(* A model of the edge-nhl client: the websocket session driver           *)
(* (edge_nhl/client.py), the fragment extractor and the aggregate merger   *)
(* (edge_nhl/parsers.py) and the data model (edge_nhl/data_models.py).     *)
(*                                                                         *)
(* Text is a sequence of one-character strings.  An Optional value is a    *)
(* sequence of length 0 (None) or 1.  A float is [k, v]: k is "fin", "nan" *)
(* or "inf" and v the value in hundredths.  A JSON value is a node         *)
(* [t, n, s, a, o]: its type tag, number, text, list items, object pairs.  *)
(*                                                                         *)
(* Spec is the client over NumSessions invocations of                      *)
(* connect_and_communicate; ParseSpec is one call of parse_html_content    *)
(* and the merge of what it returns, over a wider set of fragments;        *)
(* ConcSpec is the client with its invocations running concurrently.       *)
(***************************************************************************)
EXTENDS Integers, Sequences, FiniteSets, TLC

\* ------------------------------------------------------------------------
\* Bounds of the model
\* ------------------------------------------------------------------------

\* the number of invocations of connect_and_communicate on one client object
NumSessions == 2

\* ------------------------------------------------------------------------
\* Optional values, text, floats
\* ------------------------------------------------------------------------

None == <<>>

Some(x) == <<x>>

IsNone(o) == Len(o) = 0

Fin(v) == [k |-> "fin", v |-> v]

NaN == [k |-> "nan", v |-> 0]

Inf(sign) == [k |-> "inf", v |-> sign]

Digits == {"0", "1", "2", "3", "4", "5", "6", "7", "8", "9"}

DigitVal(c) ==
    CASE c = "0" -> 0 [] c = "1" -> 1 [] c = "2" -> 2 [] c = "3" -> 3
      [] c = "4" -> 4 [] c = "5" -> 5 [] c = "6" -> 6 [] c = "7" -> 7
      [] c = "8" -> 8 [] c = "9" -> 9

Whitespace == {" ", "\n", "\t"}

RECURSIVE LStrip(_)
LStrip(t) ==
    IF t # <<>> /\ Head(t) \in Whitespace THEN LStrip(Tail(t)) ELSE t

RECURSIVE RStrip(_)
RStrip(t) ==
    IF t # <<>> /\ t[Len(t)] \in Whitespace
    THEN RStrip(SubSeq(t, 1, Len(t) - 1))
    ELSE t

\* str.strip()
Strip(t) == RStrip(LStrip(t))

\* str.replace(c, "")
Remove(t, c) == SelectSeq(t, LAMBDA x : x # c)

\* sub in t, for two texts
Contains(t, sub) ==
    \E i \in 1..(Len(t) - Len(sub) + 1) : SubSeq(t, i, i + Len(sub) - 1) = sub

LowerChar(c) ==
    CASE c = "N" -> "n" [] c = "A" -> "a" [] c = "I" -> "i" [] c = "F" -> "f"
      [] OTHER -> c

Lower(t) == [i \in 1..Len(t) |-> LowerChar(t[i])]

AllDigits(t) == \A i \in 1..Len(t) : t[i] \in Digits

RECURSIVE DigitsVal(_)
DigitsVal(t) ==
    IF t = <<>> THEN 0
    ELSE 10 * DigitsVal(SubSeq(t, 1, Len(t) - 1)) + DigitVal(t[Len(t)])

\* the value in hundredths of the fraction digits after the point
FracVal(t) ==
    IF Len(t) = 0 THEN 0
    ELSE IF Len(t) = 1 THEN 10 * DigitVal(t[1])
    ELSE 10 * DigitVal(t[1]) + DigitVal(t[2])

DotAt(t) == IF \E i \in 1..Len(t) : t[i] = "."
            THEN CHOOSE i \in 1..Len(t) : t[i] = "." /\ \A j \in 1..(i - 1) : t[j] # "."
            ELSE 0

\* an unsigned decimal literal: digits, with at most one point and a digit
\* on at least one side of it
UnsignedFloat(t) ==
    LET d == DotAt(t)
        ip == IF d = 0 THEN t ELSE SubSeq(t, 1, d - 1)
        fp == IF d = 0 THEN <<>> ELSE SubSeq(t, d + 1, Len(t))
    IN  IF AllDigits(ip) /\ AllDigits(fp) /\ Len(ip) + Len(fp) > 0
        THEN Some(Fin(100 * DigitsVal(ip) + FracVal(fp)))
        ELSE IF Lower(t) = <<"n", "a", "n">> THEN Some(NaN)
        ELSE IF Lower(t) = <<"i", "n", "f">> THEN Some(Inf(1))
        ELSE None

Negate(x) ==
    IF x.k = "nan" THEN x ELSE [k |-> x.k, v |-> 0 - x.v]

\* float(text) of Python for a str argument: None stands for ValueError.
\* Exponents and digit-group underscores are outside the modelled alphabet.
PyFloat(text) ==
    LET t == Strip(text)
    IN  IF t = <<>> THEN None
        ELSE IF Head(t) = "-"
             THEN LET u == UnsignedFloat(Tail(t))
                  IN  IF IsNone(u) THEN None ELSE Some(Negate(u[1]))
        ELSE IF Head(t) = "+" THEN UnsignedFloat(Tail(t))
        ELSE UnsignedFloat(t)

convert_to_float(text) ==
    PyFloat(Strip(Remove(Remove(text, "%"), ",")))

\* a percentile parser that drops percent signs and separators as well
safe_convert_stripping(text) == PyFloat(Strip(Remove(Remove(text, "%"), ",")))

safe_convert(text) == PyFloat(text)

\* ------------------------------------------------------------------------
\* JSON values, as json.loads returns them
\* ------------------------------------------------------------------------

JNode(t, n, s, a, o) == [t |-> t, n |-> n, s |-> s, a |-> a, o |-> o]

\* text that json.loads rejects
JBad == JNode("invalid", 0, <<>>, <<>>, <<>>)

JNull == JNode("null", 0, <<>>, <<>>, <<>>)

\* a number, in hundredths
JNum(n) == JNode("number", n, <<>>, <<>>, <<>>)

JStr(s) == JNode("string", 0, s, <<>>, <<>>)

JList(a) == JNode("list", 0, <<>>, a, <<>>)

\* an object, as its sequence of <<key, value>> pairs
JObj(o) == JNode("object", 0, <<>>, <<>>, o)

ObjHas(j, key) == \E i \in 1..Len(j.o) : j.o[i][1] = key

\* dict.get(key, default)
ObjGet(j, key, default) ==
    IF ObjHas(j, key)
    THEN j.o[CHOOSE i \in 1..Len(j.o) : j.o[i][1] = key][2]
    ELSE default

\* bool(x) of a JSON value
Truthy(j) ==
    CASE j.t = "null" -> FALSE
      [] j.t = "number" -> j.n # 0
      [] j.t = "string" -> j.s # <<>>
      [] j.t = "list" -> j.a # <<>>
      [] j.t = "object" -> j.o # <<>>
      [] OTHER -> FALSE

ChartDataKey == <<"c", "h", "a", "r", "t", "D", "a", "t", "a">>

\* ------------------------------------------------------------------------
\* data_models.py
\* ------------------------------------------------------------------------

StatRow(label, pv, la, pct, tip) ==
    [stat_label |-> label, player_value |-> pv, league_average |-> la,
     percentile |-> pct, tooltip |-> tip]

RadarChartItem(axis, value, vlabel) ==
    [axis_label |-> axis, value |-> value, value_label |-> vlabel]

RadarChartData(config, data) == [config |-> config, data |-> data]

\* the shot-location slot holds table rows or the raw chartData JSON
RowsValue(rows) == [kind |-> "rows", rows |-> rows, json |-> JNull]

JsonValue(j) == [kind |-> "json", rows |-> <<>>, json |-> j]

ParsedEdgeData ==
    [overview_section |-> <<>>,
     skating_speed_section |-> <<>>,
     skating_distance_section |-> <<>>,
     shot_speed_section |-> <<>>,
     shot_location_section |-> RowsValue(<<>>),
     zonetime_section |-> <<>>,
     radar_chart |-> None]

ListSlots == {"overview_section", "skating_speed_section",
              "skating_distance_section", "shot_speed_section",
              "zonetime_section"}

Slots == ListSlots \cup {"shot_location_section", "radar_chart"}

\* bool(value) of a slot value, as the `if new.<slot>:` tests of the merge
\* evaluate it
SlotTruthy(slot, v) ==
    IF slot = "shot_location_section"
    THEN IF v.kind = "rows" THEN v.rows # <<>> ELSE Truthy(v.json)
    ELSE v # <<>>

\* ------------------------------------------------------------------------
\* parsers.merge_parsed_data
\* ------------------------------------------------------------------------

\* a merger that extends a list slot instead of replacing it
merge_appending(existing, new) ==
    [slot \in Slots |->
        IF ~SlotTruthy(slot, new[slot]) THEN existing[slot]
        ELSE IF slot \in ListSlots THEN existing[slot] \o new[slot]
        ELSE new[slot]]

\* a merger that copies every slot of the new segment, empty or not
merge_overwriting(existing, new) == [slot \in Slots |-> new[slot]]

merge_parsed_data(existing, new) ==
    [slot \in Slots |->
        IF SlotTruthy(slot, new[slot]) THEN new[slot] ELSE existing[slot]]

\* ------------------------------------------------------------------------
\* The document BeautifulSoup(unescape(html), "lxml") builds from a fragment
\* (the fragments carry no character references, so unescape has nothing to
\* replace).
\*   markup  [tables, radars, shots]: the table, sl-webc-radar-chart and
\*           sl-webc-shot-chart elements, in document order
\*   table   [hover, zone, tbody, rows]: it carries class table-hover; it
\*           lies in div.col-lg-6.col-md-6 div.table-responsive; its first
\*           tbody (an Optional sequence of rows; lxml adds none); the rows
\*           outside any tbody
\*   row     a sequence of td/th cells
\*   cell    [text, spans]: its text and the data-tooltip attribute
\*           (Optional) of each span inside it
\*   chart   [id, json]: its id attribute and the json.loads of its
\*           data-json attribute (Optional: the attribute may be absent)
\* ------------------------------------------------------------------------

Cell(text, spans) == [text |-> text, spans |-> spans]

Table(hover, zone, tbody, rows) ==
    [hover |-> hover, zone |-> zone, tbody |-> tbody, rows |-> rows]

ChartEl(id, json) == [id |-> id, json |-> json]

Markup(tables, radars, shots) ==
    [tables |-> tables, radars |-> radars, shots |-> shots]

\* soup.select_one / soup.find: the first of the elements that match, or None
First(hits) == IF hits = <<>> THEN None ELSE Some(hits[1])

\* cell.get_text(strip=True)
get_text(cell) == Strip(cell.text)

\* the tooltip of a cell: the data-tooltip of its first span, if it has both
Tooltip(cell) ==
    IF cell.spans = <<>> THEN None ELSE cell.spans[1]

TableRow(cells, columns, is_shot_speed) ==
    LET percentile_text == get_text(cells[4])
    IN  StatRow(get_text(cells[1]),
                convert_to_float(get_text(cells[2])),
                IF columns = 4 THEN convert_to_float(get_text(cells[3])) ELSE None,
                IF columns = 4
                THEN IF is_shot_speed THEN safe_convert(percentile_text)
                     ELSE convert_to_float(percentile_text)
                ELSE None,
                Tooltip(cells[2]))

RECURSIVE TableRows(_, _, _)
TableRows(rows, columns, is_shot_speed) ==
    IF rows = <<>> THEN <<>>
    ELSE LET rest == TableRows(Tail(rows), columns, is_shot_speed)
         IN  IF Len(Head(rows)) >= columns
             THEN <<TableRow(Head(rows), columns, is_shot_speed)>> \o rest
             ELSE rest

parse_table(soup, columns, is_shot_speed) ==
    LET table == First(SelectSeq(soup.tables, LAMBDA t : t.hover))
    IN  IF IsNone(table) \/ IsNone(table[1].tbody) THEN <<>>
        ELSE TableRows(table[1].tbody[1], columns, is_shot_speed)

RECURSIVE ZoneRows(_)
ZoneRows(rows) ==
    IF rows = <<>> THEN <<>>
    ELSE LET cells == Head(rows)
         IN  IF Len(cells) >= 2
             THEN <<StatRow(get_text(cells[1]), convert_to_float(get_text(cells[2])),
                            None, None, None)>> \o ZoneRows(Tail(rows))
             ELSE ZoneRows(Tail(rows))

parse_zone_time_table(soup) ==
    LET table == First(SelectSeq(soup.tables, LAMBDA t : t.hover /\ t.zone))
    IN  IF IsNone(table) \/ IsNone(table[1].tbody) THEN <<>>
        ELSE ZoneRows(table[1].tbody[1])

\* ------------------------------------------------------------------------
\* Results of code that may raise: exc is "none" or the exception's name
\* ------------------------------------------------------------------------

Ok(v) == [exc |-> "none", val |-> v]

Raise(e, v) == [exc |-> e, val |-> v]

\* float(item.get("value", 0)) with its `except ValueError: value = 0.0`
ItemValue(item) ==
    LET v == ObjGet(item, "value", JNum(0))
    IN  CASE v.t = "number" -> Ok(Fin(v.n))
          [] v.t = "string" ->
                LET f == PyFloat(v.s) IN IF IsNone(f) THEN Ok(Fin(0)) ELSE Ok(f[1])
          [] OTHER -> Raise("TypeError", Fin(0))

\* the loop `for item in data_list` over a list
RECURSIVE RadarItems(_)
RadarItems(items) ==
    IF items = <<>> THEN Ok(<<>>)
    ELSE LET item == Head(items)
         IN  IF item.t # "object" THEN Raise("AttributeError", <<>>)
             ELSE LET value == ItemValue(item)
                      rest == RadarItems(Tail(items))
                  IN  IF value.exc # "none" THEN Raise(value.exc, <<>>)
                      ELSE IF rest.exc # "none" THEN rest
                      ELSE Ok(<<RadarChartItem(ObjGet(item, "axisLabel", JStr(<<>>)),
                                               value.val,
                                               ObjGet(item, "valueLabel", JStr(<<>>)))>>
                              \o rest.val)

\* the loop over whatever chartData[0].get("data", []) is
RadarData(data_list) ==
    CASE data_list.t = "list" -> RadarItems(data_list.a)
      [] data_list.t = "object" ->
            IF data_list.o = <<>> THEN Ok(<<>>) ELSE Raise("AttributeError", <<>>)
      [] data_list.t = "string" ->
            IF data_list.s = <<>> THEN Ok(<<>>) ELSE Raise("AttributeError", <<>>)
      [] OTHER -> Raise("TypeError", <<>>)

\* `"chartData" in chart_data and chart_data["chartData"]`
ChartDataOf(chart_data) ==
    CASE chart_data.t = "object" ->
            IF ObjHas(chart_data, "chartData")
            THEN Ok(ObjGet(chart_data, "chartData", JNull))
            ELSE Ok(JNull)
      [] chart_data.t = "list" ->
            IF \E i \in 1..Len(chart_data.a) : chart_data.a[i] = JStr(ChartDataKey)
            THEN Raise("TypeError", JNull)
            ELSE Ok(JNull)
      [] chart_data.t = "string" ->
            IF Contains(chart_data.s, ChartDataKey)
            THEN Raise("TypeError", JNull)
            ELSE Ok(JNull)
      [] OTHER -> Raise("TypeError", JNull)

\* chart_data["chartData"][0].get("data", []) of a truthy chartData
SeriesData(cd) ==
    CASE cd.t = "list" ->
            IF cd.a[1].t = "object"
            THEN Ok(ObjGet(cd.a[1], "data", JList(<<>>)))
            ELSE Raise("AttributeError", JNull)
      [] cd.t = "string" -> Raise("AttributeError", JNull)
      [] cd.t = "object" -> Raise("KeyError", JNull)
      [] OTHER -> Raise("TypeError", JNull)

parse_radar_chart(soup) ==
    LET chart_el == First(SelectSeq(soup.radars, LAMBDA e : e.id = "overview-radarchart"))
    IN  IF IsNone(chart_el) \/ IsNone(chart_el[1].json) THEN Ok(None)
        ELSE LET loaded == chart_el[1].json[1]
                 chart_data == IF loaded.t = "invalid" THEN JObj(<<>>) ELSE loaded
                 cd == ChartDataOf(chart_data)
             IN  IF cd.exc # "none" THEN Raise(cd.exc, None)
                 ELSE IF ~Truthy(cd.val) THEN Ok(None)
                 ELSE LET data_list == SeriesData(cd.val)
                      IN  IF data_list.exc # "none" THEN Raise(data_list.exc, None)
                          ELSE LET items == RadarData(data_list.val)
                               IN  IF items.exc # "none" THEN Raise(items.exc, None)
                                   ELSE Ok(Some(RadarChartData(
                                            ObjGet(chart_data, "config", JObj(<<>>)),
                                            items.val)))

\* ------------------------------------------------------------------------
\* parsers.parse_html_content
\* ------------------------------------------------------------------------

ExpectedTargets ==
    {"#overview-section-content", "#skatingspeed-section-content",
     "#skatingdistance-section-content", "#shotspeed-section-content",
     "#shotlocation-section-content", "#zonetime-section-content"}

\* the shot-location branch: the chartData of the first sl-webc-shot-chart
\* when it has a data-json that loads to an object; the table otherwise
ShotLocation(soup) ==
    LET shot_chart == First(soup.shots)
    IN  IF IsNone(shot_chart) \/ IsNone(shot_chart[1].json)
        THEN RowsValue(parse_table(soup, 4, FALSE))
        ELSE LET data == shot_chart[1].json[1]
             IN  IF data.t = "object"
                 THEN JsonValue(ObjGet(data, "chartData", JList(<<>>)))
                 ELSE RowsValue(parse_table(soup, 4, FALSE))

\* the shot-location branch with its logger.debug, whose
\* len(parsed.shot_location_section) raises for a chartData without a length
ShotLogged(section) ==
    IF section.kind = "json" /\ section.json.t \in {"null", "number"}
    THEN Raise("TypeError", ParsedEdgeData)
    ELSE Ok([ParsedEdgeData EXCEPT !.shot_location_section = section])

\* the overview branch: the table, and the chart unless reading it raised
Overview(rows, radar) ==
    [exc |-> radar.exc,
     val |-> [ParsedEdgeData EXCEPT !.overview_section = rows,
                                    !.radar_chart = radar.val]]

parse_html_content(soup, target) ==
    LET parsed == ParsedEdgeData
    IN  CASE target = "#overview-section-content" ->
                Overview(parse_table(soup, 4, FALSE), parse_radar_chart(soup))
          [] target = "#skatingspeed-section-content" ->
                Ok([parsed EXCEPT !.skating_speed_section = parse_table(soup, 4, FALSE)])
          [] target = "#skatingdistance-section-content" ->
                Ok([parsed EXCEPT !.skating_distance_section = parse_table(soup, 4, FALSE)])
          [] target = "#shotspeed-section-content" ->
                Ok([parsed EXCEPT !.shot_speed_section = parse_table(soup, 4, TRUE)])
          [] target = "#shotlocation-section-content" ->
                ShotLogged(ShotLocation(soup))
          [] target = "#zonetime-section-content" ->
                Ok([parsed EXCEPT !.zonetime_section = parse_zone_time_table(soup)])
          [] OTHER -> Ok(parsed)

\* ------------------------------------------------------------------------
\* Inbound fragments and frames
\* ------------------------------------------------------------------------

Txt100 == <<"1", "0", "0">>

Txt50 == <<"5", "0">>

Txt80Pct == <<"8", "0", "%">>

StatCells ==
    <<Cell(<<"S", "O", "G">>, <<>>), Cell(Txt100, <<Some("tip")>>),
      Cell(Txt50, <<>>), Cell(Txt80Pct, <<>>)>>

RadarJson(levels) ==
    JObj(<<<<"config", JObj(<<<<"levels", JNum(levels)>>>>)>>,
           <<"chartData",
             JList(<<JObj(<<<<"data",
                JList(<<JObj(<<<<"axisLabel", JStr(<<"T", "S">>)>>,
                               <<"value", JNum(8400)>>,
                               <<"valueLabel", JNum(8400)>>>>)>>)>>>>)>>)>>>>)

ShotJson == JObj(<<<<"chartData", JList(<<JNum(100)>>)>>>>)

\* a fragment every extractor reads: a table.table-hover with a tbody in the
\* zone-time layout, a radar chart and a shot chart
MkFull ==
    Markup(<<Table(TRUE, TRUE, Some(<<StatCells>>), <<>>)>>,
           <<ChartEl("overview-radarchart", Some(RadarJson(400)))>>,
           <<ChartEl("", Some(ShotJson))>>)

\* a fragment with a radar chart and no table
MkChart ==
    Markup(<<>>, <<ChartEl("overview-radarchart", Some(RadarJson(500)))>>, <<>>)

\* a bare <table><tr>..</tr></table>: no class, no tbody
MkBare ==
    Markup(<<Table(FALSE, FALSE, None, <<StatCells>>)>>, <<>>, <<>>)

\* a radar chart whose chartData holds a number where a series is expected
MkBadChart ==
    Markup(<<>>,
           <<ChartEl("overview-radarchart",
                     Some(JObj(<<<<"chartData", JList(<<JNum(100)>>)>>>>)))>>,
           <<>>)

\* the fragments by name
Dom(name) ==
    CASE name = "full" -> MkFull
      [] name = "chart" -> MkChart
      [] name = "bare" -> MkBare
      [] name = "badchart" -> MkBadChart
      [] OTHER -> Markup(<<>>, <<>>, <<>>)

MarkupNames == {"full", "chart", "bare", "badchart"}

\* A field of an inbound JSON object: kind is "text", "absent" (no such key),
\* "null" or "number"; text is its value when it is text.
Field(kind, text) == [kind |-> kind, text |-> text]

\* json.loads of a text frame: json is "invalid" (not JSON), "nonobject"
\* (a list, a number, a string, null) or "object" with its three fields
TextData(json, type, target, html) ==
    [json |-> json, type |-> type, target |-> target, html |-> html]

NoField == Field("absent", "")

Envelope(type, target, html) ==
    TextData("object", Field("text", type), Field("text", target), Field("text", html))

\* a target that is not expected, and an expected one in whitespace
OtherTargets == {"#profile-section", " #overview-section-content "}

\* str.strip() of a target text
StripTarget(t) ==
    IF t = " #overview-section-content " THEN "#overview-section-content" ELSE t

\* the html envelopes: every fragment for the overview target, whose
\* extractor reads the charts as well; a readable and an unreadable table for
\* the other expected targets; a readable fragment for the other targets
HtmlEnvelopes ==
    {Envelope("html", "#overview-section-content", m) : m \in MarkupNames}
    \cup {Envelope("html", t, m) : t \in ExpectedTargets, m \in {"full", "bare"}}
    \cup {Envelope("html", t, "full") : t \in OtherTargets}

MalformedTexts ==
    {TextData("invalid", NoField, NoField, NoField),
     TextData("nonobject", NoField, NoField, NoField),
     TextData("object", Field("text", "html"), Field("number", ""), Field("text", "full")),
     TextData("object", Field("text", "html"), Field("null", ""), Field("text", "full")),
     TextData("object", Field("text", "html"),
              Field("text", "#overview-section-content"), Field("null", "")),
     TextData("object", Field("text", "html"),
              Field("text", "#zonetime-section-content"), Field("number", ""))}

\* objects of another type, or of none
OtherTexts ==
    {Envelope("label", "#overview-section-content", "full"),
     TextData("object", NoField, NoField, NoField)}

\* an html object without target and html keys: both default to ""
DefaultedTexts == {TextData("object", Field("text", "html"), NoField, NoField)}

Texts == HtmlEnvelopes \cup MalformedTexts \cup OtherTexts \cup DefaultedTexts

\* the frame types that end `async for msg in ws`: aiohttp stops the
\* iteration on them, and the loop body breaks on the last two
CloseTypes == {"CLOSE", "CLOSING", "CLOSED"}

IgnoredTypes == {"BINARY", "PING", "PONG"}

\* ------------------------------------------------------------------------
\* client.EdgeNHLClient._handle_text_message
\* ------------------------------------------------------------------------

\* what one call does: the exception it raises ("none" if it returns), the
\* client's fields after it, whether it called ws.close(), and the segment it
\* handed to _merge_parsed_data (Optional)
Handled(exc, rt, pd, closed, merged) ==
    [exc |-> exc, received_targets |-> rt, parsed_data |-> pd, closed |-> closed,
     merged |-> merged]

\* self._merge_parsed_data(new_data)
_merge_parsed_data(pd, new_data) == merge_parsed_data(pd, new_data)

\* from parse_html_content on, for the segment it returned or the
\* exception it raised
MergeSegment(parsed_segment, rt, pd) ==
    IF parsed_segment.exc # "none"
    THEN Handled(parsed_segment.exc, rt, pd, FALSE, None)
    ELSE Handled("none", rt, _merge_parsed_data(pd, parsed_segment.val), FALSE,
                 Some(parsed_segment.val))

\* a handler that records every target, expected or not
ReceivedAny(target, rt) == rt \cup {target}

\* self.received_targets.add(target), for an expected target
Received(target, rt) ==
    IF target \in ExpectedTargets THEN rt \cup {target} ELSE rt

\* a handler that records the target and leaves the closing to the remote
HandleHtmlNoClose(html_content, target, rt, pd) ==
    MergeSegment(parse_html_content(Dom(html_content), target), Received(target, rt), pd)

\* a handler that closes on the first expected target it receives
HandleHtmlCloseEarly(html_content, target, rt, pd) ==
    IF target \in ExpectedTargets
    THEN Handled("none", Received(target, rt), pd, TRUE, None)
    ELSE MergeSegment(parse_html_content(Dom(html_content), target), rt, pd)

\* from `if target in self.expected_targets` on
HandleHtml(html_content, target, rt, pd) ==
    IF target \in ExpectedTargets /\ ExpectedTargets \subseteq Received(target, rt)
    THEN Handled("none", Received(target, rt), pd, TRUE, None)
    ELSE MergeSegment(parse_html_content(Dom(html_content), target),
                      Received(target, rt), pd)

\* a handler that does not look at the type of the envelope
handle_any_type(data, rt, pd) ==
    IF data.json = "object" /\ data.target.kind = "text" /\ data.html.kind = "text"
    THEN HandleHtml(data.html.text, StripTarget(data.target.text), rt, pd)
    ELSE Handled("none", rt, pd, FALSE, None)

_handle_text_message(data, rt, pd) ==
    IF data.json = "invalid" THEN Handled("none", rt, pd, FALSE, None)
    ELSE IF data.json # "object" THEN Handled("AttributeError", rt, pd, FALSE, None)
    ELSE IF ~(data.type.kind = "text" /\ data.type.text = "html")
         THEN Handled("none", rt, pd, FALSE, None)
    ELSE IF data.target.kind \notin {"text", "absent"}
         THEN Handled("AttributeError", rt, pd, FALSE, None)
    ELSE IF data.html.kind \notin {"text", "absent"}
         THEN Handled("TypeError", rt, pd, FALSE, None)
    ELSE HandleHtml(data.html.text, StripTarget(data.target.text), rt, pd)

\* ------------------------------------------------------------------------
\* client.EdgeNHLClient._generate_subsequent_messages
\* ------------------------------------------------------------------------

Request(action, renderFunction, target) ==
    [action |-> action, renderFunction |-> renderFunction, target |-> target]

initial_msg == Request("getLabel", "", "")

_create_profile_messages ==
    <<Request("load", "renderPlayerCard", "#profile-playercard"),
      Request("load", "renderProfilePlayerSection", "#profile-section")>>

section_targets ==
    <<"#overview-section-content", "#skatingspeed-section-content",
      "#skatingdistance-section-content", "#shotspeed-section-content",
      "#shotlocation-section-content", "#zonetime-section-content">>

_create_section_messages ==
    [i \in 1..Len(section_targets) |->
        Request("load", "renderProfileContent", section_targets[i])]

\* a batch that asks for the sections before the profile
sections_before_profiles ==
    _create_section_messages \o _create_profile_messages

_generate_subsequent_messages ==
    _create_profile_messages \o _create_section_messages

\* everything one session sends, in order
Outbound == <<initial_msg>> \o _generate_subsequent_messages

\* ------------------------------------------------------------------------
\* State
\* ------------------------------------------------------------------------

VARIABLES
    pc,                \* per invocation: where connect_and_communicate stands
    ws,                \* per invocation: its transport [state, sent, closes]
    received_targets,  \* self.received_targets
    _parsed_data,       \* self._parsed_data
    subsequent_sent,   \* self.subsequent_sent
    last,              \* history: the last step [s, ev, exc]
    latest,            \* history: per slot, the last non-empty value merged
    extraction         \* one call of parse_html_content: its arguments soup and
                       \* target, what it returned or raised (Optional), and
                       \* whether that was merged

vars == <<pc, ws, received_targets, _parsed_data, subsequent_sent, last, latest,
         extraction>>

Sessions == 1..NumSessions

\* Idle: not invoked.  Connecting: in ws_connect.  Sending: between two
\* sends.  Listening: awaiting the next message.  Draining: the client has
\* closed the transport and sleeps before the loop ends.  Done: the
\* coroutine has returned or raised.
Active == {"Connecting", "Sending", "Listening", "Draining"}

NoWs == [state |-> "none", sent |-> <<>>, closes |-> 0]

\* a transport after `async with`: closed, and out of scope with all that
\* was written to it
GoneWs == [state |-> "closed", sent |-> <<>>, closes |-> 0]

Step(s, ev, exc) == [s |-> s, ev |-> ev, exc |-> exc]

\* no call of the extractor on its own
NoExtraction ==
    [soup |-> Markup(<<>>, <<>>, <<>>), target |-> "", parsed |-> None, merged |-> FALSE]

\* EdgeNHLClient.__init__
Init ==
    /\ pc = [s \in Sessions |-> "Idle"]
    /\ ws = [s \in Sessions |-> NoWs]
    /\ received_targets = {}
    /\ _parsed_data = ParsedEdgeData
    /\ subsequent_sent = FALSE
    /\ last = Step(0, "init", "none")
    /\ latest = ParsedEdgeData
    /\ extraction = NoExtraction

\* the coroutine of invocation s ends: `async with` closes its transport
Leave(s, ev, exc) ==
    /\ pc' = [pc EXCEPT ![s] = "Done"]
    /\ ws' = [ws EXCEPT ![s] = GoneWs]
    /\ last' = Step(s, ev, exc)

\* invocations on one client object follow one another
MayStart(s) ==
    /\ pc[s] = "Idle"
    /\ \A t \in Sessions : t < s => pc[t] = "Done"

\* connect_and_communicate is called
Start(s) ==
    /\ MayStart(s)
    /\ pc' = [pc EXCEPT ![s] = "Connecting"]
    /\ last' = Step(s, "start", "none")
    /\ UNCHANGED <<ws, received_targets, _parsed_data, subsequent_sent, latest, extraction>>

\* session.ws_connect succeeds
Connect(s) ==
    /\ pc[s] = "Connecting"
    /\ pc' = [pc EXCEPT ![s] = "Sending"]
    /\ ws' = [ws EXCEPT ![s] = [state |-> "open", sent |-> <<>>, closes |-> 0]]
    /\ last' = Step(s, "connect", "none")
    /\ UNCHANGED <<received_targets, _parsed_data, subsequent_sent, latest, extraction>>

\* session.ws_connect raises
ConnectFail(s) ==
    /\ pc[s] = "Connecting"
    /\ Leave(s, "connect", "ClientConnectionError")
    /\ UNCHANGED <<received_targets, _parsed_data, subsequent_sent, latest, extraction>>

\* the handshake, then one subsequent message after the other
Send(s) ==
    /\ pc[s] = "Sending"
    /\ Len(ws[s].sent) < Len(Outbound)
    /\ ws' = [ws EXCEPT ![s].sent = Append(@, Outbound[Len(@) + 1])]
    /\ last' = Step(s, "send", "none")
    /\ UNCHANGED <<pc, received_targets, _parsed_data, subsequent_sent, latest, extraction>>

\* self.subsequent_sent = True, and the loop is entered
Listen(s) ==
    /\ pc[s] = "Sending"
    /\ Len(ws[s].sent) = Len(Outbound)
    /\ pc' = [pc EXCEPT ![s] = "Listening"]
    /\ subsequent_sent' = TRUE
    /\ last' = Step(s, "listen", "none")
    /\ UNCHANGED <<ws, received_targets, _parsed_data, latest, extraction>>

\* the history of merges: a slot follows the non-empty values handed to the
\* merger, whatever the merger does with them
Latest(payload) ==
    [slot \in Slots |->
        IF SlotTruthy(slot, payload[slot]) THEN payload[slot] ELSE latest[slot]]

\* the kind of a text frame: "invalid" (not JSON), "nonobject", "badfield"
\* (an html object whose target or html is not text), "html", "other"
TextClass(data) ==
    IF data.json # "object" THEN data.json
    ELSE IF data.type # Field("text", "html") THEN "other"
    ELSE IF data.target.kind \in {"null", "number"} \/ data.html.kind \in {"null", "number"}
         THEN "badfield"
    ELSE "html"

\* the loop after the handler has returned or raised as h says, for a text
\* of kind ev
AfterHandler(s, ev, h) ==
    /\ received_targets' = h.received_targets
    /\ _parsed_data' = h.parsed_data
    /\ latest' = IF IsNone(h.merged) THEN latest ELSE Latest(h.merged[1])
    /\ IF h.exc # "none"
       THEN Leave(s, ev, h.exc)
       ELSE /\ pc' = [pc EXCEPT ![s] = IF h.closed THEN "Draining" ELSE "Listening"]
            /\ ws' = [ws EXCEPT ![s].closes = IF h.closed THEN @ + 1 ELSE @,
                                ![s].state = IF h.closed THEN "closed" ELSE @]
            /\ last' = Step(s, ev, "none")

\* a TEXT message is read and handled, then the loop sleeps
RecvText(s, data) ==
    /\ pc[s] = "Listening"
    /\ AfterHandler(s, TextClass(data),
                    _handle_text_message(data, received_targets, _parsed_data))
    /\ UNCHANGED <<subsequent_sent, extraction>>

\* a loop that treats the end of the transport as a failure and drops the
\* aggregate
RecvCloseFailing(s, type) ==
    /\ pc[s] = "Listening"
    /\ Leave(s, type, "ServerDisconnectedError")
    /\ _parsed_data' = ParsedEdgeData
    /\ UNCHANGED <<received_targets, subsequent_sent, latest, extraction>>

\* a close frame, or the closed state of the transport, ends the loop
RecvClose(s, type) ==
    /\ pc[s] = "Listening"
    /\ Leave(s, type, "none")
    /\ UNCHANGED <<received_targets, _parsed_data, subsequent_sent, latest, extraction>>

\* an ERROR message: logged, then `break`
RecvError(s) ==
    /\ pc[s] = "Listening"
    /\ Leave(s, "ERROR", "none")
    /\ UNCHANGED <<received_targets, _parsed_data, subsequent_sent, latest, extraction>>

\* a message of any other type matches no branch of the loop body
RecvIgnored(s, type) ==
    /\ pc[s] = "Listening"
    /\ last' = Step(s, type, "none")
    /\ UNCHANGED <<pc, ws, received_targets, _parsed_data, subsequent_sent, latest, extraction>>

\* a loop that takes a receive timeout for the end of the stream
RecvTimeoutQuiet(s) ==
    /\ pc[s] = "Listening"
    /\ Leave(s, "timeout", "none")
    /\ UNCHANGED <<received_targets, _parsed_data, subsequent_sent, latest, extraction>>

\* no message within receive_timeout: ws.receive raises
RecvTimeout(s) ==
    /\ pc[s] = "Listening"
    /\ Leave(s, "timeout", "TimeoutError")
    /\ UNCHANGED <<received_targets, _parsed_data, subsequent_sent, latest, extraction>>

\* after the client's own close the iteration over ws stops
LoopExit(s) ==
    /\ pc[s] = "Draining"
    /\ Leave(s, "exit", "none")
    /\ UNCHANGED <<received_targets, _parsed_data, subsequent_sent, latest, extraction>>

\* the task is cancelled while it is suspended in an await
Cancel(s) ==
    /\ pc[s] \in Active
    /\ Leave(s, "cancel", "CancelledError")
    /\ UNCHANGED <<received_targets, _parsed_data, subsequent_sent, latest, extraction>>

\* reset_parsed_data, called between two invocations
Reset ==
    /\ \A s \in Sessions : pc[s] \notin Active
    /\ _parsed_data # ParsedEdgeData
    /\ _parsed_data' = ParsedEdgeData
    /\ latest' = ParsedEdgeData
    /\ last' = Step(0, "reset", "none")
    /\ UNCHANGED <<pc, ws, received_targets, subsequent_sent, extraction>>

Next ==
    \/ \E s \in Sessions :
          \/ Start(s)
          \/ Connect(s)
          \/ ConnectFail(s)
          \/ Send(s)
          \/ Listen(s)
          \/ \E data \in Texts : RecvText(s, data)
          \/ \E type \in CloseTypes : RecvClose(s, type)
          \/ RecvError(s)
          \/ \E type \in IgnoredTypes : RecvIgnored(s, type)
          \/ RecvTimeout(s)
          \/ LoopExit(s)
          \/ Cancel(s)
    \/ Reset

Spec == Init /\ [][Next]_vars

\* ------------------------------------------------------------------------
\* The extractor on its own: one call of parse_html_content(html, target)
\* ------------------------------------------------------------------------

Txt2291 == <<"2", "2", ".", "9", "1">>

Txt1234 == <<"1", ",", "2", "3", "4">>

Txt84 == <<"8", "4">>

TxtAbc == <<"a", "b", "c">>

\* the texts of a numeric cell: plain, with a separator, with a percent
\* sign, padded, empty, a dash, words
CellTexts ==
    {Txt2291, Txt1234, Txt80Pct, Txt84, <<" ", "8", "4", "\n">>, <<"0">>,
     <<>>, <<"-">>, TxtAbc}

\* a row of a statistics table: label, player value, league average,
\* percentile
Row(pv, pct, spans) ==
    <<Cell(<<"T", "S">>, <<>>), Cell(pv, spans), Cell(Txt50, <<>>), Cell(pct, <<>>)>>

\* the spans of a player-value cell: none, one with a data-tooltip, one
\* without, one without before one with
SpanLists == {<<>>, <<Some("tip")>>, <<None>>, <<None, Some("tip")>>}

\* a table.table-hover with a tbody in the zone-time layout
HoverTable(rows) == Table(TRUE, TRUE, Some(rows), <<>>)

TableSoups ==
    {Markup(<<HoverTable(<<Row(pv, pct, <<Some("tip")>>)>>)>>, <<>>, <<>>) :
        pv \in CellTexts, pct \in CellTexts}
    \cup {Markup(<<HoverTable(<<Row(Txt2291, Txt84, spans)>>)>>, <<>>, <<>>) :
            spans \in SpanLists}
    \cup {MkBare,
          Markup(<<>>, <<>>, <<>>),
          \* class table-hover, rows outside a tbody
          Markup(<<Table(TRUE, TRUE, None, <<Row(Txt2291, Txt84, <<>>)>>)>>, <<>>, <<>>),
          \* outside the zone-time layout
          Markup(<<Table(TRUE, FALSE, Some(<<Row(Txt2291, Txt84, <<>>)>>), <<>>)>>,
                 <<>>, <<>>),
          \* a plain table before the one with the class
          Markup(<<Table(FALSE, FALSE, None, <<StatCells>>),
                   HoverTable(<<Row(Txt2291, Txt84, <<>>)>>)>>, <<>>, <<>>),
          \* a row of three cells, a row of one, a row of four
          Markup(<<HoverTable(<<SubSeq(StatCells, 1, 3), SubSeq(StatCells, 1, 1),
                                Row(Txt1234, Txt84, <<>>)>>)>>, <<>>, <<>>),
          \* an empty tbody
          Markup(<<HoverTable(<<>>)>>, <<>>, <<>>)}

Item(value) ==
    JObj(<<<<"axisLabel", JStr(<<"T", "S">>)>>, <<"value", value>>,
           <<"valueLabel", JNum(8400)>>>>)

\* a chart of one series
SeriesJson(items) ==
    JObj(<<<<"config", JObj(<<<<"levels", JNum(400)>>>>)>>,
           <<"chartData", JList(<<JObj(<<<<"data", JList(items)>>>>)>>)>>>>)

\* what the data-json of a radar chart loads to
RadarJsons ==
    {RadarJson(400),
     SeriesJson(<<Item(JNum(8400)), Item(JNum(0))>>),
     SeriesJson(<<Item(JStr(Txt84))>>),
     SeriesJson(<<Item(JStr(TxtAbc))>>),
     SeriesJson(<<Item(JStr(<<>>))>>),
     SeriesJson(<<Item(JNull)>>),
     SeriesJson(<<JObj(<<<<"axisLabel", JStr(<<"T", "S">>)>>>>)>>),
     SeriesJson(<<>>),
     JObj(<<<<"chartData", JList(<<JObj(<<>>)>>)>>>>),
     JObj(<<<<"config", JObj(<<<<"levels", JNum(400)>>>>)>>>>),
     JObj(<<<<"chartData", JList(<<>>)>>>>),
     JObj(<<<<"chartData", JList(<<JNum(100)>>)>>>>),
     JList(<<>>),
     JBad}

RadarEls ==
    {ChartEl("overview-radarchart", Some(j)) : j \in RadarJsons}
    \cup {ChartEl("", Some(RadarJson(400))), ChartEl("overview-radarchart", None)}

\* what the data-json of a shot chart loads to
ShotJsons ==
    {ShotJson, JObj(<<>>), JObj(<<<<"chartData", JNull>>>>), JList(<<>>), JBad}

ShotEls == {ChartEl("", Some(j)) : j \in ShotJsons} \cup {ChartEl("", None)}

ChartSoups ==
    {Markup(<<HoverTable(<<Row(Txt2291, Txt84, <<Some("tip")>>)>>)>>, <<e>>, <<>>) :
        e \in RadarEls}
    \cup {Markup(<<HoverTable(<<Row(Txt2291, Txt84, <<Some("tip")>>)>>)>>, <<>>, <<e>>) :
            e \in ShotEls}
    \cup {MkFull, MkChart, MkBadChart,
          \* a chart without the id before the one with it
          Markup(<<>>, <<ChartEl("", Some(RadarJson(500))),
                         ChartEl("overview-radarchart", Some(RadarJson(400)))>>, <<>>)}

\* a row of a statistics table with a padded label
RowOf(pv, la, pct) ==
    <<Cell(<<" ", "T", "S", "\n">>, <<>>), Cell(pv, <<>>), Cell(la, <<>>), Cell(pct, <<>>)>>

\* tables of one row whose league average and percentile take every text
AverageSoups ==
    {Markup(<<HoverTable(<<RowOf(Txt2291, la, pct)>>)>>, <<>>, <<>>) :
        la \in CellTexts, pct \in CellTexts}

Soups == TableSoups \cup ChartSoups \cup AverageSoups

Targets == ExpectedTargets \cup {"#profile-section", ""}

\* an aggregate with every slot filled
FilledAggregate ==
    [overview_section |-> parse_table(MkFull, 4, FALSE),
     skating_speed_section |-> parse_table(MkFull, 4, FALSE),
     skating_distance_section |-> parse_table(MkFull, 4, FALSE),
     shot_speed_section |-> parse_table(MkFull, 4, TRUE),
     shot_location_section |-> ShotLocation(MkFull),
     zonetime_section |-> parse_zone_time_table(MkFull),
     radar_chart |-> parse_radar_chart(MkFull).val]

\* the call is made on a client whose aggregate is empty or filled: its
\* arguments are drawn, nothing is returned yet
ParseInit ==
    /\ pc = [s \in Sessions |-> "Idle"]
    /\ ws = [s \in Sessions |-> NoWs]
    /\ received_targets = {}
    /\ _parsed_data \in {ParsedEdgeData, FilledAggregate}
    /\ subsequent_sent = FALSE
    /\ last = Step(0, "init", "none")
    /\ latest = _parsed_data
    /\ extraction \in {[soup |-> m, target |-> t, parsed |-> None, merged |-> FALSE] :
                          m \in Soups, t \in Targets}

\* parse_html_content returns, or raises
Extract ==
    /\ IsNone(extraction.parsed)
    /\ extraction' = [extraction EXCEPT
                         !.parsed = Some(parse_html_content(extraction.soup,
                                                            extraction.target))]
    /\ UNCHANGED <<pc, ws, received_targets, _parsed_data, subsequent_sent, last,
                   latest>>

\* self._merge_parsed_data(parsed_segment), when the extractor returned
Merge ==
    /\ extraction.parsed # None
    /\ extraction.parsed[1].exc = "none"
    /\ ~extraction.merged
    /\ _parsed_data' = _merge_parsed_data(_parsed_data, extraction.parsed[1].val)
    /\ latest' = Latest(extraction.parsed[1].val)
    /\ extraction' = [extraction EXCEPT !.merged = TRUE]
    /\ UNCHANGED <<pc, ws, received_targets, subsequent_sent, last>>

ParseNext == Extract \/ Merge

ParseSpec == ParseInit /\ [][ParseNext]_vars

\* ------------------------------------------------------------------------
\* Invocations of connect_and_communicate on one client object that run
\* concurrently, as tasks of one event loop: they interleave at their awaits
\* ------------------------------------------------------------------------

\* connect_and_communicate is called, whatever the other invocations do
StartConcurrently(s) ==
    /\ pc[s] = "Idle"
    /\ pc' = [pc EXCEPT ![s] = "Connecting"]
    /\ last' = Step(s, "start", "none")
    /\ UNCHANGED <<ws, received_targets, _parsed_data, subsequent_sent, latest, extraction>>

\* the text frames the concurrent invocations read: a readable fragment for
\* every expected target
ConcTexts == {Envelope("html", t, "full") : t \in ExpectedTargets}

ConcNext ==
    \E s \in Sessions :
        \/ StartConcurrently(s)
        \/ Connect(s)
        \/ ConnectFail(s)
        \/ Send(s)
        \/ Listen(s)
        \/ \E data \in ConcTexts : RecvText(s, data)
        \/ \E type \in CloseTypes : RecvClose(s, type)
        \/ RecvError(s)
        \/ \E type \in IgnoredTypes : RecvIgnored(s, type)
        \/ RecvTimeout(s)
        \/ LoopExit(s)
        \/ Cancel(s)

ConcSpec == Init /\ [][ConcNext]_vars

\* ------------------------------------------------------------------------
\* Properties
\* ------------------------------------------------------------------------

\* the payloads the extractor returns for the modelled fragments and targets
Payloads ==
    {parse_html_content(Dom(m), t).val :
        m \in MarkupNames, t \in ExpectedTargets \cup {"#profile-section"}}

Levels(chart) == ObjGet(chart[1].config, "levels", JNull)

\* C1: the step that makes the received-target set contain all six expected
\* targets is a step in which the client closes its transport itself (one
\* close call, transport closed, no close frame read), and the only step
\* the session takes after it is leaving the loop.
C1_ClosesOnCompletion ==
    [][/\ (received_targets # ExpectedTargets /\ received_targets' = ExpectedTargets)
          => /\ last'.ev = "html"
             /\ ws'[last'.s].closes = ws[last'.s].closes + 1
             /\ ws'[last'.s].state = "closed"
             /\ pc'[last'.s] = "Draining"
       /\ \A s \in Sessions :
             (pc[s] = "Draining" /\ pc'[s] # "Draining") => pc'[s] = "Done"]_vars

\* C1 witness: a session closed by the client on completion, after two
\* overview fragments (the first with a table, the second with a chart only)
C1_Witness ==
    \E s \in Sessions :
        /\ pc[s] = "Draining" /\ ws[s].closes = 1
        /\ received_targets = ExpectedTargets
        /\ _parsed_data.overview_section # <<>>
        /\ _parsed_data.radar_chart # None
        /\ Levels(_parsed_data.radar_chart) = JNum(500)

\* C2: every html envelope with an expected target whose fragment the
\* extractor reads is recorded as received and its payload is merged into
\* the aggregate, the envelope that completes the received set included.
C2_EveryExpectedEnvelopeMerged ==
    [][\A s \in Sessions, data \in HtmlEnvelopes :
          LET target == StripTarget(data.target.text)
              segment == parse_html_content(Dom(data.html.text), target)
          IN  (RecvText(s, data) /\ target \in ExpectedTargets /\ segment.exc = "none")
                 => /\ target \in received_targets'
                    /\ _parsed_data' = merge_parsed_data(_parsed_data, segment.val)]_vars

\* C3: a close frame read while an expected target is still missing ends the
\* session without an exception, and leaves the aggregate and the received
\* set as the merges before it made them.
C3_RemoteCloseIsPartialSuccess ==
    [][(last'.ev \in CloseTypes /\ received_targets # ExpectedTargets)
          => /\ last'.exc = "none"
             /\ pc'[last'.s] = "Done"
             /\ _parsed_data' = _parsed_data
             /\ received_targets' = received_targets]_vars

\* C3 witness: the remote closed a session that had merged an overview
\* fragment and had not received every expected target
C3_Witness ==
    /\ last.ev \in CloseTypes /\ last.exc = "none"
    /\ pc[last.s] = "Done"
    /\ received_targets # ExpectedTargets
    /\ "#overview-section-content" \in received_targets
    /\ _parsed_data.overview_section # <<>>

\* C4: a cancellation may come at any await of a session; it closes the
\* transport, ends the session without an exception reaching the caller,
\* and leaves every merge made before it in the aggregate.
C4_AbortNeverThrows ==
    [][last'.ev = "cancel"
          => /\ pc[last'.s] \in Active
             /\ ws'[last'.s].state = "closed"
             /\ pc'[last'.s] = "Done"
             /\ last'.exc = "none"
             /\ _parsed_data' = _parsed_data]_vars

\* C5: an ERROR frame ends the session with an exception surfaced to the
\* caller, and a close frame never does.
C5_ErrorFrameFails ==
    /\ last.ev = "ERROR" => last.exc # "none"
    /\ last.ev \in CloseTypes => last.exc = "none"

\* C6: a text frame that is no well-formed envelope is discarded: no
\* exception, the received set and the aggregate unchanged, the session
\* still listening.
C6_MalformedTextDiscarded ==
    [][last'.ev \in {"invalid", "nonobject", "badfield"}
          => /\ last'.exc = "none"
             /\ pc'[last'.s] = "Listening"
             /\ received_targets' = received_targets
             /\ _parsed_data' = _parsed_data]_vars

\* C7: handling an html envelope never raises, whatever its fragment: the
\* session is still in its loop after it.
C7_ExtractionNeverRaises ==
    last.ev = "html" => (last.exc = "none" /\ pc[last.s] \in {"Listening", "Draining"})

\* C8: every invocation starts with an empty received-target set and an
\* empty aggregate.
C8_FreshStatePerSession ==
    \A s \in Sessions :
        pc[s] = "Connecting"
            => (received_targets = {} /\ _parsed_data = ParsedEdgeData)

\* C9: merging a payload into the aggregate twice gives the aggregate that
\* merging it once gives, for every aggregate the client reaches and every
\* payload the extractor returns.
C9_MergeIdempotent ==
    \A p \in Payloads :
        merge_parsed_data(merge_parsed_data(_parsed_data, p), p)
            = merge_parsed_data(_parsed_data, p)

\* C9 witness: a non-empty aggregate that some payload changes and another
\* leaves as it is
C9_Witness ==
    /\ last.ev = "html" /\ last.exc = "none"
    /\ _parsed_data.skating_speed_section # <<>>
    /\ \E p \in Payloads : merge_parsed_data(_parsed_data, p) # _parsed_data
    /\ \E p \in Payloads :
          /\ p # ParsedEdgeData
          /\ merge_parsed_data(_parsed_data, p) = _parsed_data

\* C10: every slot of the aggregate is empty, when no non-empty value was
\* merged for it, or else the non-empty value merged for it last; a payload
\* with an empty field never erases the slot.
C10_SlotHoldsLatestNonEmpty ==
    \A slot \in Slots : _parsed_data[slot] = latest[slot]

\* C10 witness: the overview table survived the merge of a later overview
\* payload with no rows, which replaced the radar chart
C10_Witness ==
    /\ last.ev = "html" /\ last.exc = "none"
    /\ _parsed_data.overview_section # <<>>
    /\ _parsed_data.radar_chart # None
    /\ Levels(_parsed_data.radar_chart) = JNum(500)
    /\ received_targets = {"#overview-section-content"}

\* C11, as stated: an html envelope whose target text is not one of the six
\* expected target strings yields an empty payload, leaves the aggregate and
\* the received set unchanged and does not make the client close.
C11_UnlistedTargetIgnored ==
    [][\A s \in Sessions, data \in HtmlEnvelopes \cup DefaultedTexts :
          (/\ data.target.text \notin ExpectedTargets
           /\ last'.ev = "html" /\ last'.s = s
           /\ RecvText(s, data))
             => /\ _handle_text_message(data, received_targets, _parsed_data).merged
                      = Some(ParsedEdgeData)
                /\ _parsed_data' = _parsed_data
                /\ received_targets' = received_targets
                /\ ws'[s] = ws[s]
                /\ pc'[s] = "Listening"]_vars

\* C11, amended: an html envelope whose target, with the surrounding
\* whitespace stripped, is not one of the six expected target strings yields
\* an empty payload, leaves the aggregate and the received set unchanged and
\* does not make the client close.
C11_UnexpectedTargetIgnored ==
    [][\A s \in Sessions, data \in HtmlEnvelopes \cup DefaultedTexts :
          (/\ StripTarget(data.target.text) \notin ExpectedTargets
           /\ last'.ev = "html" /\ last'.s = s
           /\ RecvText(s, data))
             => /\ _handle_text_message(data, received_targets, _parsed_data).merged
                      = Some(ParsedEdgeData)
                /\ _parsed_data' = _parsed_data
                /\ received_targets' = received_targets
                /\ ws'[s] = ws[s]
                /\ pc'[s] = "Listening"]_vars

\* C11 witness: html envelopes were handled, none with an expected target:
\* the received set is still empty and the session listens
C11_Witness ==
    /\ last.ev = "html" /\ last.exc = "none"
    /\ pc[last.s] = "Listening" /\ ws[last.s].state = "open"
    /\ received_targets = {}
    /\ _parsed_data = ParsedEdgeData

\* C12: what a session has sent is always a prefix of one getLabel request
\* followed by eight load requests: player card, profile section, then the
\* six expected targets, each once, in the listed order.  While requests
\* are still to be sent the session has consumed no inbound message, and
\* from the moment it listens exactly these nine have been sent and no more.
C12_RequestsThenListen ==
    /\ Len(Outbound) = 9
    /\ Outbound[1].action = "getLabel"
    /\ \A i \in 2..9 : Outbound[i].action = "load"
    /\ Outbound[2].target = "#profile-playercard"
    /\ Outbound[3].target = "#profile-section"
    /\ \A i \in 1..6 : Outbound[i + 3].target = section_targets[i]
    /\ {Outbound[i].target : i \in 4..9} = ExpectedTargets
    /\ \A s \in Sessions :
          /\ Len(ws[s].sent) <= 9
          /\ ws[s].sent = SubSeq(Outbound, 1, Len(ws[s].sent))
          /\ pc[s] = "Sending" => (last.s = s /\ last.ev \in {"connect", "send"})
          /\ pc[s] \in {"Listening", "Draining"} => ws[s].sent = Outbound

\* C12 witness: a session that sent the nine requests and then consumed an
\* html envelope
C12_Witness ==
    \E s \in Sessions :
        /\ pc[s] = "Listening" /\ ws[s].sent = Outbound
        /\ last = Step(s, "html", "none")
        /\ received_targets # {}

\* C13: a session that has merged nothing and handles an html envelope for
\* #overview-section-content whose fragment is a plain table (no class, no
\* tbody) with one row of four cells holds exactly one overview row after
\* it, with the label of the first cell and the numbers of the next three
\* (100.0, 50.0, 80.0); the close frame that follows leaves the aggregate as
\* it is.
C13_PlainTableRowExtracted ==
    [][/\ \A s \in Sessions :
             (/\ last'.ev = "html" /\ last'.s = s
              /\ _parsed_data = ParsedEdgeData
              /\ RecvText(s, Envelope("html", "#overview-section-content", "bare")))
                => /\ Len(_parsed_data'.overview_section) = 1
                   /\ _parsed_data'.overview_section[1].stat_label = <<"S", "O", "G">>
                   /\ _parsed_data'.overview_section[1].player_value = Some(Fin(10000))
                   /\ _parsed_data'.overview_section[1].league_average = Some(Fin(5000))
                   /\ _parsed_data'.overview_section[1].percentile = Some(Fin(8000))
       /\ last'.ev \in CloseTypes => _parsed_data' = _parsed_data]_vars

\* the items of the first chartData series of a chart's JSON
SeriesItems(j) == ObjGet(ObjGet(j, "chartData", JNull).a[1], "data", JNull).a

\* a chart's JSON with a config mapping and a chartData list whose first
\* series holds a list of items with a numeric value each
WellFormedChart(j) ==
    /\ j.t = "object"
    /\ ObjGet(j, "config", JNull).t = "object"
    /\ ObjGet(j, "chartData", JNull).t = "list"
    /\ ObjGet(j, "chartData", JNull).a # <<>>
    /\ ObjGet(j, "chartData", JNull).a[1].t = "object"
    /\ ObjGet(ObjGet(j, "chartData", JNull).a[1], "data", JNull).t = "list"
    /\ \A i \in 1..Len(SeriesItems(j)) :
          /\ SeriesItems(j)[i].t = "object"
          /\ ObjGet(SeriesItems(j)[i], "value", JNull).t = "number"

\* C14: the extraction of an overview fragment whose first radar-chart
\* element (whatever its id) carries a well-formed data-json has a radar
\* chart with the embedded config and one item per entry of the first
\* series, in order, with its axis label and value; and the tooltip of a
\* table row is the data-tooltip of the annotation in its player-value cell.
C14_ChartAndTooltipExtracted ==
    (extraction.parsed # None /\ extraction.target = "#overview-section-content")
        => /\ \A j \in RadarJsons :
                 (/\ extraction.soup.radars # <<>>
                  /\ extraction.soup.radars[1].json = Some(j)
                  /\ WellFormedChart(j))
                    => /\ extraction.parsed[1].exc = "none"
                       /\ extraction.parsed[1].val.radar_chart # None
                       /\ extraction.parsed[1].val.radar_chart[1].config
                             = ObjGet(j, "config", JNull)
                       /\ Len(extraction.parsed[1].val.radar_chart[1].data)
                             = Len(SeriesItems(j))
                       /\ \A i \in 1..Len(SeriesItems(j)) :
                             /\ extraction.parsed[1].val.radar_chart[1].data[i].axis_label
                                   = ObjGet(SeriesItems(j)[i], "axisLabel", JNull)
                             /\ extraction.parsed[1].val.radar_chart[1].data[i].value
                                   = Fin(ObjGet(SeriesItems(j)[i], "value", JNull).n)
           /\ \A spans \in SpanLists :
                 extraction.soup.tables = <<HoverTable(<<Row(Txt2291, Txt84, spans)>>)>>
                    => /\ Len(extraction.parsed[1].val.overview_section) = 1
                       /\ extraction.parsed[1].val.overview_section[1].tooltip
                             = IF spans # <<>> /\ spans[1] # None THEN spans[1] ELSE None

\* C15: a receive timeout strikes a session only while it awaits the next
\* inbound message; it ends the session with a timeout error raised to the
\* caller, and the aggregate and the received set keep what the merges
\* before it made them.
C15_ReceiveTimeoutIsFatal ==
    [][last'.ev = "timeout"
          => /\ pc[last'.s] = "Listening"
             /\ last'.exc = "TimeoutError"
             /\ pc'[last'.s] = "Done"
             /\ _parsed_data' = _parsed_data
             /\ received_targets' = received_targets]_vars

\* C15 witness: a session timed out after it had merged an overview fragment
C15_Witness ==
    /\ last.ev = "timeout" /\ last.exc = "TimeoutError"
    /\ pc[last.s] = "Done"
    /\ _parsed_data.overview_section # <<>>
    /\ received_targets = {"#overview-section-content"}

\* the slot parse_html_content fills for a target
SlotOf(target) ==
    CASE target = "#overview-section-content" -> "overview_section"
      [] target = "#skatingspeed-section-content" -> "skating_speed_section"
      [] target = "#skatingdistance-section-content" -> "skating_distance_section"
      [] target = "#shotspeed-section-content" -> "shot_speed_section"
      [] target = "#shotlocation-section-content" -> "shot_location_section"
      [] target = "#zonetime-section-content" -> "zonetime_section"

\* the targets whose slot holds the rows of the four-column table
TableTargets ==
    {"#overview-section-content", "#skatingspeed-section-content",
     "#skatingdistance-section-content", "#shotspeed-section-content"}

\* the number a cell text stands for once percent signs and thousands
\* separators are dropped, in hundredths; None for a text that is empty or
\* no number
Denotes(text) ==
    CASE text = Txt2291 -> Some(Fin(2291))
      [] text = Txt1234 -> Some(Fin(123400))
      [] text = Txt80Pct -> Some(Fin(8000))
      [] text = Txt84 -> Some(Fin(8400))
      [] text = <<" ", "8", "4", "\n">> -> Some(Fin(8400))
      [] text = <<"0">> -> Some(Fin(0))
      [] OTHER -> None

\* C16: every number the extractor reads is absent when its source is
\* empty or no number, never zero and never an exception, and is the number
\* the text stands for otherwise: the player value and the percentile of a
\* table row (the percentile of the shot-speed table through the strict
\* parser), and the value of a radar-chart item.
C16_NumbersAbsentOrParsed ==
    extraction.parsed # None
        => /\ \A pv \in CellTexts, pct \in CellTexts :
                 (/\ extraction.target \in TableTargets
                  /\ extraction.soup
                        = Markup(<<HoverTable(<<Row(pv, pct, <<Some("tip")>>)>>)>>,
                                 <<>>, <<>>))
                    => /\ extraction.parsed[1].exc = "none"
                       /\ Len(extraction.parsed[1].val[SlotOf(extraction.target)]) = 1
                       /\ extraction.parsed[1].val[SlotOf(extraction.target)][1].player_value
                             = Denotes(pv)
                       /\ Denotes(pct) = None
                             => extraction.parsed[1].val[SlotOf(extraction.target)][1].percentile
                                   = None
                       /\ (extraction.target # "#shotspeed-section-content"
                              \/ pct \in {Txt2291, Txt84, <<"0">>})
                             => extraction.parsed[1].val[SlotOf(extraction.target)][1].percentile
                                   = Denotes(pct)
           /\ \A v \in {JStr(Txt84), JStr(TxtAbc), JStr(<<>>), JNull} :
                 (/\ extraction.target = "#overview-section-content"
                  /\ extraction.soup.radars
                        = <<ChartEl("overview-radarchart", Some(SeriesJson(<<Item(v)>>)))>>)
                    => /\ extraction.parsed[1].exc = "none"
                       /\ extraction.parsed[1].val.radar_chart # None
                       /\ Len(extraction.parsed[1].val.radar_chart[1].data) = 1
                       /\ IF v = JStr(Txt84)
                          THEN extraction.parsed[1].val.radar_chart[1].data[1].value
                                  = Fin(8400)
                          ELSE extraction.parsed[1].val.radar_chart[1].data[1].value
                                  # Fin(0)

\* C17: the received-target set only grows, holds expected targets only and
\* changes only in a step that handles an html envelope, by the one expected
\* target the envelope names; and an html envelope whose target is in the
\* set already leaves the set as it is while its fragment is extracted and
\* merged into the aggregate again.
C17_SetGrowsDuplicatesMerged ==
    [][/\ received_targets \subseteq received_targets'
       /\ received_targets' \subseteq ExpectedTargets
       /\ received_targets' # received_targets
             => /\ last'.ev = "html"
                /\ \E t \in ExpectedTargets :
                      received_targets' = received_targets \cup {t}
       /\ \A s \in Sessions, data \in HtmlEnvelopes :
             (/\ StripTarget(data.target.text) \in received_targets
              /\ last'.ev = "html" /\ last'.s = s
              /\ RecvText(s, data))
                => /\ received_targets' = received_targets
                   /\ _handle_text_message(data, received_targets, _parsed_data).merged
                         # None
                   /\ _parsed_data'
                         = merge_parsed_data(_parsed_data,
                              parse_html_content(Dom(data.html.text),
                                                 StripTarget(data.target.text)).val)]_vars

\* a chart's JSON with a config mapping and a chartData list whose first
\* series holds a list of items
ChartShaped(j) ==
    /\ j.t = "object"
    /\ ObjGet(j, "config", JNull).t = "object"
    /\ ObjGet(j, "chartData", JNull).t = "list"
    /\ ObjGet(j, "chartData", JNull).a # <<>>
    /\ ObjGet(j, "chartData", JNull).a[1].t = "object"
    /\ ObjGet(ObjGet(j, "chartData", JNull).a[1], "data", JNull).t = "list"

\* C18: merging the extraction of a fragment for target T changes at most
\* the slot of T, and the radar-chart slot when T is the overview target,
\* and no slot at all when T is not an expected target; and the
\* radar-chart slot is set only from an overview fragment with a chart
\* element whose data-json is a well-formed chart: a malformed or missing
\* chart gives no chart, never an empty one.
C18_OnlyOwnSlotChanges ==
    [][(extraction'.merged /\ ~extraction.merged)
          => /\ \A slot \in Slots :
                   _parsed_data'[slot] # _parsed_data[slot]
                      => /\ extraction.target \in ExpectedTargets
                         /\ \/ slot = SlotOf(extraction.target)
                            \/ /\ slot = "radar_chart"
                               /\ extraction.target = "#overview-section-content"
             /\ extraction.parsed[1].val.radar_chart # None
                   => /\ extraction.target = "#overview-section-content"
                      /\ _parsed_data'.radar_chart = extraction.parsed[1].val.radar_chart
                      /\ \E i \in 1..Len(extraction.soup.radars) :
                            /\ extraction.soup.radars[i].json # None
                            /\ ChartShaped(extraction.soup.radars[i].json[1])
                            /\ extraction.parsed[1].val.radar_chart[1].config
                                  = ObjGet(extraction.soup.radars[i].json[1],
                                           "config", JNull)]_vars

\* C19: a step that reads a JSON object whose type is not "html", or a
\* binary, ping or pong frame, is taken by a listening session and leaves it
\* listening: no exception, no extraction and no merge, the received set,
\* the aggregate and the transport (nothing sent, not closed) unchanged.
C19_OtherFramesIgnored ==
    [][last'.ev \in IgnoredTypes \cup {"other"}
          => /\ pc[last'.s] = "Listening" /\ pc'[last'.s] = "Listening"
             /\ last'.exc = "none"
             /\ received_targets' = received_targets
             /\ _parsed_data' = _parsed_data
             /\ latest' = latest
             /\ ws' = ws
             /\ \A data \in OtherTexts :
                   /\ TextClass(data) = "other"
                   /\ _handle_text_message(data, received_targets, _parsed_data).merged
                         = None]_vars

\* C19 witness: a session that has merged an overview fragment reads an
\* object of another type and goes on listening
C19_Witness ==
    /\ last.ev = "other" /\ last.exc = "none"
    /\ pc[last.s] = "Listening" /\ ws[last.s].state = "open"
    /\ received_targets = {"#overview-section-content"}
    /\ _parsed_data.overview_section # <<>>

\* C20: a session calls ws.close() at most once, and only with all six
\* expected targets in the received set: while the session runs, a
\* transport that is closed was closed by that one call, and whenever an
\* expected target is missing the transport is open and no close was called.
C20_ClosesOnlyWhenComplete ==
    \A s \in Sessions :
        /\ ws[s].closes <= 1
        /\ ws[s].closes = 1
              => (received_targets = ExpectedTargets /\ pc[s] = "Draining")
        /\ (pc[s] \in Active /\ ws[s].state = "closed") => ws[s].closes = 1
        /\ (pc[s] \in {"Sending", "Listening"} /\ received_targets # ExpectedTargets)
              => (ws[s].state = "open" /\ ws[s].closes = 0)

\* C20 witness: a session that has five of the six targets listens on an
\* open transport it has not closed
C20_Witness ==
    \E s \in Sessions :
        /\ pc[s] = "Listening" /\ ws[s].state = "open" /\ ws[s].closes = 0
        /\ Cardinality(received_targets) = 5
        /\ last = Step(s, "html", "none")

\* the rows parse_html_content returns in the slot of a target
RowsOf(target, val) ==
    IF target = "#shotlocation-section-content"
    THEN val.shot_location_section.rows
    ELSE val[SlotOf(target)]

\* the number a cell text stands for when percent signs and thousands
\* separators are not dropped
DenotesStrictly(text) ==
    IF \E i \in 1..Len(text) : text[i] \in {"%", ","} THEN None ELSE Denotes(text)

\* C23: in a row of the shot-speed table the percentile is the number its
\* text stands for with no percent sign or thousands separator dropped
\* ("84" is 84.0, "80%" and "1,234" are absent), while the label is the
\* stripped text and the player value and the league average are parsed with
\* those characters dropped; and the percentile of the overview,
\* skating-speed, skating-distance and shot-location tables is parsed with
\* them dropped as well.
C23_StrictShotSpeedPercentile ==
    /\ DenotesStrictly(Txt84) = Some(Fin(8400))
    /\ DenotesStrictly(Txt80Pct) = None
    /\ DenotesStrictly(Txt1234) = None
    /\ (/\ extraction.parsed # None
        /\ extraction.soup \in AverageSoups
        /\ extraction.target \in TableTargets \cup {"#shotlocation-section-content"})
          => /\ extraction.parsed[1].exc = "none"
             /\ Len(RowsOf(extraction.target, extraction.parsed[1].val)) = 1
             /\ RowsOf(extraction.target, extraction.parsed[1].val)[1].stat_label
                   = <<"T", "S">>
             /\ RowsOf(extraction.target, extraction.parsed[1].val)[1].player_value
                   = Denotes(extraction.soup.tables[1].tbody[1][1][2].text)
             /\ RowsOf(extraction.target, extraction.parsed[1].val)[1].league_average
                   = Denotes(extraction.soup.tables[1].tbody[1][1][3].text)
             /\ RowsOf(extraction.target, extraction.parsed[1].val)[1].percentile
                   = IF extraction.target = "#shotspeed-section-content"
                     THEN DenotesStrictly(extraction.soup.tables[1].tbody[1][1][4].text)
                     ELSE Denotes(extraction.soup.tables[1].tbody[1][1][4].text)

\* C23 witness: a shot-speed row whose league average and percentile both
\* read "80%" was extracted: the league average is 80.0, the percentile absent
C23_Witness ==
    /\ extraction.parsed # None
    /\ extraction.target = "#shotspeed-section-content"
    /\ extraction.soup
          = Markup(<<HoverTable(<<RowOf(Txt2291, Txt80Pct, Txt80Pct)>>)>>, <<>>, <<>>)
    /\ extraction.parsed[1].val.shot_speed_section[1].league_average = Some(Fin(8000))
    /\ extraction.parsed[1].val.shot_speed_section[1].percentile = None

\* the steps that consume one inbound message, by the kind of the message
MessageEvents ==
    {"invalid", "nonobject", "badfield", "html", "other", "ERROR"}
    \cup CloseTypes \cup IgnoredTypes

\* C21: every step that consumes an inbound message is taken by a session
\* that awaits one and handles that one message to its end; the aggregate
\* and the received set change in such a step only; and once a session has
\* closed its transport or has returned, the aggregate it leaves to its
\* caller is never changed again (reset_parsed_data replaces the client's
\* aggregate by a new one and does not touch the one handed out).
C21_NothingAfterSessionEnd ==
    [][/\ last'.ev \in MessageEvents
             => /\ pc[last'.s] = "Listening"
                /\ pc'[last'.s] \in {"Listening", "Draining", "Done"}
                /\ \A t \in Sessions \ {last'.s} : pc'[t] = pc[t] /\ ws'[t] = ws[t]
       /\ (last'.ev # "reset"
              /\ (_parsed_data' # _parsed_data \/ received_targets' # received_targets))
             => last'.ev = "html"
       /\ \A s \in Sessions :
             (pc[s] \in {"Draining", "Done"} /\ last'.ev # "reset")
                => _parsed_data' = _parsed_data]_vars

\* C22: while another invocation is sending or listening, a step in which a
\* session handles an html envelope changes neither the received-target
\* set, on which the other decides its completion, nor the aggregate the
\* other fills.
C22_ConcurrentSessionsIsolated ==
    [][\A s \in Sessions, t \in Sessions :
          (/\ s # t
           /\ last'.ev = "html" /\ last'.s = s
           /\ pc[s] = "Listening"
           /\ pc[t] \in {"Sending", "Listening"})
             => /\ received_targets' = received_targets
                /\ _parsed_data' = _parsed_data]_vars

====
